---- MODULE Spec2Model ----
(***************************************************************************)
(* Model of util/simplemerkle/merkle.go: the flat-array binary merkle tree *)
(* (NewTreeFromSlices, NewTreeFromHashes, Root, Depth).                    *)
(*                                                                         *)
(* Digests and byte strings are finite sequences of integers.  The         *)
(* external hash function is a free constructor: hasher(b) brackets b, so  *)
(* it is injective and no hash equals a caller-supplied leaf digest (a     *)
(* one-element sequence) or UndefHash.  Slots of the array are pointers:   *)
(* nil, the address of an element of the hashes array, or the address of a *)
(* freshly allocated digest.  Arrays are functions on 0..len-1 so that the *)
(* indices are those of the source.                                        *)
(***************************************************************************)
EXTENDS Integers, Sequences, FiniteSets, TLC

VARIABLES
    entry,      \* which constructor the caller invokes: "hashes" or "slices"
    slices,     \* the caller's payload array (argument of NewTreeFromSlices)
    hashes,     \* the digest array the leaves point into (merkle.go:49, :57)
    input0,     \* ghost: the value of hashes when NewTreeFromHashes was entered
    pc,         \* "call", "loop", "done", "panic"
    tree,       \* "nil" or "tree": the *Tree returned
    merkles,    \* the slot array, a function 0..arraySize-1 -> pointer
    nextPoT,    \* merkle.go:63
    arraySize,  \* merkle.go:64
    offset,     \* merkle.go:73
    i,          \* merkle.go:74
    log,        \* ghost: one record per loop iteration
    built,      \* ghost: the slot values and root when the build returned
    rootRet,    \* result of the last Root() call (<<>>: not called)
    depthRet,   \* result of the last Depth() call (-1: not called)
    prevInput,  \* ghost: the input of the previous build call
    prevRoot    \* ghost: the root of the previous build call

vars == <<entry, slices, hashes, input0, pc, tree, merkles, nextPoT, arraySize,
          offset, i, log, built, rootRet, depthRet, prevInput, prevRoot>>

(* Bound: the longest input sequence. *)
MaxN == 5

(* The digests and payloads the caller may pass. *)
LeafDigests == {<<1>>, <<2>>}
Payloads == {<<1>>, <<2>>}

Len0(f) == Cardinality(DOMAIN f)
EmptyArr == [k \in {} |-> <<>>]
ArraysOver(S) == UNION {[0..(n - 1) -> S] : n \in 0..MaxN}

---------------------------------------------------------------------------
(* hash.UndefHash and the hash function bound at merkle.go:9-13. *)
UndefHash == <<0>>
hasher(b) == <<-1>> \o b \o <<-2>>

(* Pointers. *)
NilPtr == <<>>
AddrOfHashes(k) == <<0, k>>
NewCell(d) == <<1>> \o d
Deref(p) == IF p[1] = 0 THEN hashes[p[2]] ELSE Tail(p)

---------------------------------------------------------------------------
(* Integer arithmetic of nextPowerOfTwo and Depth. *)
RECURSIVE BitAnd(_, _)
BitAnd(a, b) ==
    IF a = 0 \/ b = 0 THEN 0
    ELSE (IF a % 2 = 1 /\ b % 2 = 1 THEN 1 ELSE 0) + 2 * BitAnd(a \div 2, b \div 2)

(* int(math.Log2(float64(x))) for x >= 1: the float result truncated.  The  *)
(* float64 result has the exact integer part for every x below 2^48, which *)
(* covers every slice length that fits in memory.                          *)
RECURSIVE Log2Int(_)
Log2Int(x) == IF x <= 1 THEN 0 ELSE 1 + Log2Int(x \div 2)

nextPowerOfTwoAlwaysNext(n) == 2 ^ (Log2Int(n) + 1)
nextPowerOfTwo(n) ==
    IF BitAnd(n, n - 1) = 0 THEN n
    ELSE 2 ^ (Log2Int(n) + 1)

HashMerkleBranchesSwapped(left, right) == hasher(right \o left)
HashMerkleBranches(left, right) == hasher(left \o right)

---------------------------------------------------------------------------
(* The switch of the build loop. *)
Branch(l, r) ==
    IF l = NilPtr THEN "nil"
    ELSE IF r = NilPtr THEN "dup"
    ELSE "both"

ParentPromoteLone(l, r) ==
    IF l = NilPtr THEN NilPtr
    ELSE IF r = NilPtr THEN l
    ELSE NewCell(HashMerkleBranches(Deref(l), Deref(r)))
ParentNoDuplicate(l, r) ==
    IF l = NilPtr \/ r = NilPtr THEN NilPtr
    ELSE NewCell(HashMerkleBranches(Deref(l), Deref(r)))
ParentZeroFilled(l, r) ==
    IF l = NilPtr THEN NewCell(HashMerkleBranches(UndefHash, UndefHash))
    ELSE IF r = NilPtr THEN NewCell(HashMerkleBranches(Deref(l), Deref(l)))
    ELSE NewCell(HashMerkleBranches(Deref(l), Deref(r)))
Parent(l, r) ==
    IF l = NilPtr THEN NilPtr
    ELSE IF r = NilPtr THEN NewCell(HashMerkleBranches(Deref(l), Deref(l)))
    ELSE NewCell(HashMerkleBranches(Deref(l), Deref(r)))

LoopCondOffByOne(idx, size) == idx < size
LoopCond(idx, size) == idx < size - 1

PlaceLeaves(h, size) ==
    [k \in 0..(size - 1) |-> IF k \in DOMAIN h THEN AddrOfHashes(k) ELSE NilPtr]

---------------------------------------------------------------------------
(* The accessors, on the current state. *)
SlotValue(k) == IF merkles[k] = NilPtr THEN <<>> ELSE Deref(merkles[k])

RootOf(t) ==
    IF t = "nil" THEN UndefHash
    ELSE LET h == merkles[Len0(merkles) - 1]
         IN  IF h # NilPtr THEN Deref(h) ELSE UndefHash
Root == RootOf(tree)

DepthPlusOne == IF tree = "nil" THEN 0 ELSE Log2Int(Len0(merkles) + 1)
Depth == IF tree = "nil" THEN 0 ELSE Log2Int(Len0(merkles))

NoSnapshot == [slots |-> EmptyArr, root |-> <<>>]

---------------------------------------------------------------------------
Init ==
    /\ entry \in {"hashes", "slices"}
    /\ IF entry = "hashes"
       THEN hashes \in ArraysOver(LeafDigests) /\ slices = EmptyArr
       ELSE slices \in ArraysOver(Payloads) /\ hashes = EmptyArr
    /\ input0 = EmptyArr
    /\ pc = "call"
    /\ tree = "nil"
    /\ merkles = EmptyArr
    /\ nextPoT = 0
    /\ arraySize = 0
    /\ offset = 0
    /\ i = 0
    /\ log = <<>>
    /\ built = NoSnapshot
    /\ rootRet = <<>>
    /\ depthRet = -1
    /\ prevInput = EmptyArr
    /\ prevRoot = <<>>

(* NewTreeFromHashes up to the loop head (merkle.go:57-73). *)
EnterNoEmptyCheck(h) ==
    /\ hashes' = h
    /\ input0' = h
    /\ LET L == nextPowerOfTwo(Len0(h))
           size == L * 2 - 1
       IN  IF size < 0 \/ Len0(h) > size
           THEN /\ pc' = "panic"
                /\ UNCHANGED <<merkles, nextPoT, arraySize, offset>>
           ELSE /\ pc' = "loop"
                /\ nextPoT' = L
                /\ arraySize' = size
                /\ merkles' = PlaceLeaves(h, size)
                /\ offset' = L
    /\ i' = 0
    /\ UNCHANGED <<entry, slices, tree, log, built, rootRet, depthRet,
                   prevInput, prevRoot>>
Enter(h) ==
    /\ hashes' = h
    /\ input0' = h
    /\ IF Len0(h) = 0
       THEN /\ pc' = "done"
            /\ UNCHANGED <<merkles, nextPoT, arraySize, offset>>
       ELSE LET L == nextPowerOfTwo(Len0(h))
                size == L * 2 - 1
            IN  IF size < 0 \/ Len0(h) > size
                THEN /\ pc' = "panic"
                     /\ UNCHANGED <<merkles, nextPoT, arraySize, offset>>
                ELSE /\ pc' = "loop"
                     /\ nextPoT' = L
                     /\ arraySize' = size
                     /\ merkles' = PlaceLeaves(h, size)
                     /\ offset' = L
    /\ i' = 0
    /\ UNCHANGED <<entry, slices, tree, log, built, rootRet, depthRet,
                   prevInput, prevRoot>>

NewTreeFromHashes ==
    /\ pc = "call"
    /\ entry = "hashes"
    /\ Enter(hashes)

NewTreeFromSlices ==
    /\ pc = "call"
    /\ entry = "slices"
    /\ Enter([k \in DOMAIN slices |-> hasher(slices[k])])

(* One iteration of the loop at merkle.go:74-93. *)
LoopIter ==
    /\ pc = "loop"
    /\ LoopCond(i, arraySize)
    /\ IF {i, i + 1, offset} \subseteq DOMAIN merkles
       THEN /\ merkles' = [merkles EXCEPT ![offset] = Parent(merkles[i], merkles[i + 1])]
            /\ log' = Append(log, [i |-> i, offset |-> offset,
                                   left |-> merkles[i] # NilPtr,
                                   right |-> merkles[i + 1] # NilPtr,
                                   branch |-> Branch(merkles[i], merkles[i + 1])])
            /\ offset' = offset + 1
            /\ i' = i + 2
            /\ pc' = "loop"
       ELSE /\ pc' = "panic"
            /\ UNCHANGED <<merkles, log, offset, i>>
    /\ UNCHANGED <<entry, slices, hashes, input0, tree, nextPoT, arraySize, built,
                   rootRet, depthRet, prevInput, prevRoot>>

(* The loop condition fails: return &Tree{merkles: merkles} (merkle.go:95). *)
LoopExit ==
    /\ pc = "loop"
    /\ ~LoopCond(i, arraySize)
    /\ tree' = "tree"
    /\ pc' = "done"
    /\ built' = [slots |-> [k \in DOMAIN merkles |-> SlotValue(k)],
                 root |-> RootOf("tree")]
    /\ UNCHANGED <<entry, slices, hashes, input0, merkles, nextPoT, arraySize,
                   offset, i, log, rootRet, depthRet, prevInput, prevRoot>>

CallRoot ==
    /\ pc = "done"
    /\ rootRet' = Root
    /\ UNCHANGED <<entry, slices, hashes, input0, pc, tree, merkles, nextPoT,
                   arraySize, offset, i, log, built, depthRet, prevInput, prevRoot>>

CallDepth ==
    /\ pc = "done"
    /\ depthRet' = Depth
    /\ UNCHANGED <<entry, slices, hashes, input0, pc, tree, merkles, nextPoT,
                   arraySize, offset, i, log, built, rootRet, prevInput, prevRoot>>

(* After the build returned the caller still holds the array it passed in *)
(* and may store into it.                                                  *)
CallerOverwrite ==
    /\ pc = "done"
    /\ IF entry = "hashes"
       THEN /\ \E k \in DOMAIN hashes, d \in LeafDigests :
                 /\ hashes[k] # d
                 /\ hashes' = [hashes EXCEPT ![k] = d]
            /\ UNCHANGED slices
       ELSE /\ \E k \in DOMAIN slices, d \in Payloads :
                 /\ slices[k] # d
                 /\ slices' = [slices EXCEPT ![k] = d]
            /\ UNCHANGED hashes
    /\ UNCHANGED <<entry, input0, pc, tree, merkles, nextPoT, arraySize, offset, i,
                   log, built, rootRet, depthRet, prevInput, prevRoot>>

(* The caller builds another tree from another digest sequence. *)
NewCall ==
    /\ pc = "done"
    /\ entry = "hashes"
    /\ prevInput' = input0
    /\ prevRoot' = Root
    /\ hashes' \in ArraysOver(LeafDigests)
    /\ input0' = EmptyArr
    /\ pc' = "call"
    /\ tree' = "nil"
    /\ merkles' = EmptyArr
    /\ nextPoT' = 0
    /\ arraySize' = 0
    /\ offset' = 0
    /\ i' = 0
    /\ log' = <<>>
    /\ built' = NoSnapshot
    /\ rootRet' = <<>>
    /\ depthRet' = -1
    /\ UNCHANGED <<entry, slices>>

Next ==
    \/ NewTreeFromHashes
    \/ NewTreeFromSlices
    \/ LoopIter
    \/ LoopExit
    \/ CallRoot
    \/ CallDepth

Spec == Init /\ [][Next]_vars

NextAlias == Next \/ CallerOverwrite
SpecAlias == Init /\ [][NextAlias]_vars

InitPair == Init /\ entry = "hashes"
NextPair ==
    \/ NewTreeFromHashes
    \/ LoopIter
    \/ LoopExit
    \/ NewCall
SpecPair == InitPair /\ [][NextPair]_vars

TypeOK ==
    /\ pc \in {"call", "loop", "done", "panic"}
    /\ tree \in {"nil", "tree"}
    /\ entry \in {"hashes", "slices"}
    /\ nextPoT \in Nat /\ arraySize \in Nat /\ offset \in Nat /\ i \in Nat
    /\ depthRet \in Int

---------------------------------------------------------------------------
(* Vocabulary of the properties. *)
N == Len0(input0)
Returned == pc = "done" /\ tree = "tree"
LastSlot == Len0(merkles) - 1
Present(k) == merkles[k] # NilPtr
Entries == {log[k] : k \in 1..Len(log)}

ToSeq(f) == [k \in 1..Len0(f) |-> f[k - 1]]

(* The reference level-by-level reduction of a non-empty sequence. *)
RECURSIVE Reduce(_)
Reduce(level) ==
    IF Len(level) = 1 THEN level[1]
    ELSE Reduce([k \in 1..((Len(level) + 1) \div 2) |->
                    IF 2 * k <= Len(level)
                    THEN HashMerkleBranches(level[2 * k - 1], level[2 * k])
                    ELSE HashMerkleBranches(level[2 * k - 1], level[2 * k - 1])])

PowersOfTwo(n) == {2 ^ k : k \in 0..n}
SmallestPow2(n) ==
    CHOOSE p \in PowersOfTwo(n) : p >= n /\ \A q \in PowersOfTwo(n) : q >= n => p <= q
CeilLog2(n) == CHOOSE k \in 0..n : 2 ^ k >= n /\ \A j \in 0..(k - 1) : 2 ^ j < n

(* The leaf slots below a slot, and the level of a slot, in the array layout: *)
(* the children of internal slot s are 2(s - L) and 2(s - L) + 1.             *)
RECURSIVE LeavesUnder(_)
LeavesUnder(s) ==
    IF s < nextPoT THEN {s}
    ELSE LeavesUnder(2 * (s - nextPoT)) \cup LeavesUnder(2 * (s - nextPoT) + 1)
RECURSIVE LevelOf(_)
LevelOf(s) == IF s < nextPoT THEN 0 ELSE 1 + LevelOf(2 * (s - nextPoT))
Padding == N..(nextPoT - 1)
Internal == nextPoT..(2 * nextPoT - 2)

---------------------------------------------------------------------------
(* C1: for every non-empty digest sequence, Root() of the tree built from   *)
(* it is the result of the level-by-level reduction (pair left to right, an *)
(* unpaired last node is hashed with itself); [d] gives d, [a, b] gives     *)
(* Hash(a||b), [a, b, c] gives Hash(Hash(a||b) || Hash(c||c)).              *)
C1_RootIsLevelReduction ==
    (Returned /\ rootRet # <<>>) =>
        /\ rootRet = Reduce(ToSeq(input0))
        /\ N = 1 => rootRet = input0[0]
        /\ N = 2 => rootRet = hasher(input0[0] \o input0[1])
        /\ N = 3 => rootRet = hasher(hasher(input0[0] \o input0[1])
                                     \o hasher(input0[2] \o input0[2]))
C1_Witness ==
    /\ Returned /\ N = 5 /\ entry = "hashes"
    /\ rootRet = Reduce(ToSeq(input0))

(* C2: with a collision-free hash, two non-empty digest sequences (of equal *)
(* or different length) have the same root if and only if they are equal.   *)
C2_RootInjective ==
    (Returned /\ N >= 1 /\ Len0(prevInput) >= 1) =>
        ((Root = prevRoot) <=> (input0 = prevInput))
(* C2, the part the code does satisfy: sequences of equal length. *)
C2_EqualLengthInjective ==
    (Returned /\ N >= 1 /\ Len0(prevInput) = N) =>
        ((Root = prevRoot) <=> (input0 = prevInput))

(* C3: after the build returned, an overwrite by the caller of an element   *)
(* of the sequence it passed in leaves every slot of the tree and Root()    *)
(* unchanged.                                                               *)
C3_NoAliasing ==
    Returned =>
        /\ [k \in DOMAIN merkles |-> SlotValue(k)] = built.slots
        /\ Root = built.root
(* C3, the part the code does satisfy: trees built by NewTreeFromSlices. *)
C3_SlicesNoAliasing ==
    (Returned /\ entry = "slices") =>
        /\ [k \in DOMAIN merkles |-> SlotValue(k)] = built.slots
        /\ Root = built.root

(* C4: Depth() of a tree built from n >= 1 leaves is ceil(log2(n)), 0 for   *)
(* n = 1; with L = 2^k the smallest power of two >= n, floor(log2(2L-1)) is *)
(* k.                                                                       *)
C4_DepthIsCeilLog2 ==
    (Returned /\ depthRet # -1) =>
        /\ depthRet = CeilLog2(N)
        /\ N = 1 => depthRet = 0
        /\ nextPoT = SmallestPow2(N)
        /\ nextPoT = 2 ^ depthRet
        /\ Len0(merkles) = 2 * nextPoT - 1
C4_Witness == Returned /\ N = 5 /\ depthRet = 3

(* C5: both constructors return the nil tree for an empty input without     *)
(* allocating or indexing the slot array; on the nil tree Root() returns    *)
(* the undefined digest and Depth() returns 0.                              *)
C5_EmptyInput ==
    (pc # "call" /\ N = 0) =>
        /\ pc = "done"
        /\ tree = "nil"
        /\ merkles = EmptyArr /\ arraySize = 0
        /\ log = <<>>
        /\ rootRet # <<>> => rootRet = UndefHash
        /\ depthRet # -1 => depthRet = 0
C5_Witness ==
    /\ pc = "done" /\ N = 0 /\ entry = "slices" /\ tree = "nil"
    /\ rootRet = UndefHash /\ depthRet = 0

(* C6: for every input of n >= 1 digests the construction succeeds and the  *)
(* final slot, index 2L-2, is present, so Root() returns the stored root    *)
(* and not the fallback; only the empty input builds no tree.               *)
C6_RootSlotPresent ==
    /\ pc # "panic"
    /\ (pc = "done" /\ N >= 1) =>
          /\ tree = "tree"
          /\ LastSlot = 2 * nextPoT - 2
          /\ Present(LastSlot)
          /\ rootRet # <<>> => rootRet = SlotValue(LastSlot)
    /\ (pc = "done" /\ N = 0) => tree = "nil"
C6_Witness ==
    /\ Returned /\ N = 3 /\ Present(LastSlot)
    /\ rootRet = SlotValue(LastSlot)

(* C7 as stated: the duplicate rule is applied only to pairs in the leaf    *)
(* region [0, L); an internal pair whose left slot is present has its right *)
(* slot present too.                                                        *)
C7_DuplicateOnlyAtLeaves ==
    \A e \in Entries :
        /\ e.branch = "dup" => e.i + 1 < nextPoT
        /\ (e.i >= nextPoT /\ e.left) => (e.right /\ e.branch = "both")
(* C7 as amended: the duplicate rule is applied exactly to the pairs whose  *)
(* left slot is present and right slot absent, at the leaf level or at an   *)
(* internal level; at an internal level the right slot is absent only when  *)
(* every leaf below it is padding; a pair with both slots present gives     *)
(* HashMerkleBranches(left, right).                                         *)
C7_DuplicateAtAnyLevel ==
    \A e \in Entries :
        /\ e.branch = "dup" <=> (e.left /\ ~e.right)
        /\ e.branch = "dup" =>
              SlotValue(e.offset) = HashMerkleBranches(SlotValue(e.i), SlotValue(e.i))
        /\ (e.left /\ e.right) =>
              /\ e.branch = "both"
              /\ SlotValue(e.offset) =
                    HashMerkleBranches(SlotValue(e.i), SlotValue(e.i + 1))
        /\ (e.branch = "dup" /\ e.i >= nextPoT) =>
              /\ LeavesUnder(e.i + 1) \subseteq Padding
              /\ ~(LeavesUnder(e.i) \subseteq Padding)
C7_Witness ==
    /\ Returned /\ N = 5
    /\ \E e \in Entries : e.branch = "dup" /\ e.i >= nextPoT

(* C8: whenever the left slot of a pair is absent the right slot is absent; *)
(* an internal slot of the finished tree is absent if and only if every     *)
(* leaf slot below it is a padding slot; the present slots of every level   *)
(* form a prefix of the level.                                              *)
C8_EmptinessOverPadding ==
    /\ \A e \in Entries : ~e.left => (~e.right /\ e.branch = "nil")
    /\ Returned =>
          /\ \A s \in Internal : ~Present(s) <=> (LeavesUnder(s) \subseteq Padding)
          /\ \A s, t \in DOMAIN merkles :
                (s < t /\ LevelOf(s) = LevelOf(t) /\ Present(t)) => Present(s)
C8_Witness ==
    /\ Returned /\ N = 5
    /\ \E e \in Entries : ~e.left /\ ~e.right
    /\ \E s \in Internal : ~Present(s)

(* C9: the array has 2L-1 slots, L the smallest power of two >= n; slots    *)
(* [0, n) hold the input digests in order, slots [n, L) are absent, and the *)
(* loop writes only slots [L, 2L-1).                                        *)
C9_ArrayLayout ==
    (pc \in {"loop", "done"} /\ N >= 1) =>
        /\ nextPoT = SmallestPow2(N)
        /\ N \in PowersOfTwo(N) => nextPoT = N
        /\ N = 1 => nextPoT = 1
        /\ arraySize = 2 * nextPoT - 1
        /\ DOMAIN merkles = 0..(2 * nextPoT - 2)
        /\ \A k \in 0..(N - 1) : Present(k) /\ SlotValue(k) = input0[k]
        /\ \A k \in Padding : ~Present(k)
        /\ \A e \in Entries : e.offset \in Internal
C9_Witness ==
    /\ Returned /\ N = 5 /\ Len0(merkles) = 15
    /\ \A k \in 0..4 : SlotValue(k) = input0[k]
    /\ Len(log) = 7

(* C10: at every iteration offset = L + i/2 and i + 1 < offset <= 2L-2;     *)
(* both slots read were given their final value before; every index is in   *)
(* [0, 2L-1); each internal slot is written exactly once; the loop ends     *)
(* after L-1 iterations with offset = 2L-1.                                 *)
C10_SinglePass ==
    /\ pc # "panic"
    /\ (pc \in {"loop", "done"} /\ N >= 1) =>
          /\ \A k \in 1..Len(log) :
                LET e == log[k]
                    Earlier == {log[j].offset : j \in 1..(k - 1)}
                    Later == {log[j].offset : j \in k..Len(log)}
                IN  /\ e.i = 2 * (k - 1)
                    /\ e.offset = nextPoT + e.i \div 2
                    /\ e.i + 1 < e.offset
                    /\ e.offset <= 2 * nextPoT - 2
                    /\ {e.i, e.i + 1, e.offset} \subseteq 0..(2 * nextPoT - 2)
                    /\ \A r \in {e.i, e.i + 1} :
                          /\ r < nextPoT \/ r \in Earlier
                          /\ r \notin Later
          /\ \A s \in Internal :
                Cardinality({k \in 1..Len(log) : log[k].offset = s}) <= 1
          /\ pc = "loop" => (i = 2 * Len(log) /\ offset = nextPoT + i \div 2)
          /\ pc = "done" =>
                /\ Len(log) = nextPoT - 1
                /\ offset = 2 * nextPoT - 1
                /\ \A s \in Internal :
                      Cardinality({k \in 1..Len(log) : log[k].offset = s}) = 1
C10_Witness ==
    /\ Returned /\ N = 5 /\ Len(log) = 7 /\ offset = 15
====
